---- MODULE Spec2Model ----
(***************************************************************************)
(* The single-level hashed timing wheel of src/src/timing_wheel/_impl.py   *)
(* (TimingWheel, _List, _Cell), modelled at the level of its linked cells. *)
(*                                                                         *)
(* A node of the heap is <<kind, n>>: <<"head", b>> and <<"tail", b>> are  *)
(* the two sentinels of the _List created as make_list(b), <<"cell", r>>   *)
(* is the _Cell whose value carries request_id r.  A _List is named by the *)
(* index b it was created with; the deque _schedule is a sequence of such  *)
(* names.                                                                  *)
(*                                                                         *)
(* Beside it stand the TimerHeap of src/test/test_timing_wheel.py and the  *)
(* fixed-array TimingWheel of src/src/epicycle/_impl.py, each driven only  *)
(* in the specification that compares it with the wheel.                   *)
(***************************************************************************)
EXTENDS Integers, Sequences, FiniteSets, TLC

\* Capacity the wheel is constructed with (TimingWheel(max_interval)).
max_interval == 3
\* The model stops issuing request ids after MaxId calls of _make_id.
MaxId == 2
\* The model stops advancing the clock at MaxTime.
MaxTime == 2
\* The model schedules at most MaxScripted actions that call the wheel themselves.
MaxScripted == 1

VARIABLES
    time,         \* TimingWheel._time
    last_id,      \* TimingWheel._last_id
    schedule,     \* TimingWheel._schedule: the deque of _List names, left first
    actions,      \* TimingWheel._actions: request_id -> cell
    successor,    \* _Cell.successor of every node created so far
    predecessor,  \* _Cell.predecessor of every node created so far
    deadline,     \* _List.deadline of every list
    run,          \* the observation log the scheduled actions append to
    request_ids,  \* harness bookkeeping: outstanding request_id -> the absolute
                  \* deadline (time of the add + interval) it was added with
    removed,      \* harness bookkeeping: ids cancelled while they were outstanding
    last,         \* the last call made on the wheel and how it ended
    oracle,       \* the TimerHeap the harness drives beside the wheel
    probe,        \* what each action found on the wheel when it was invoked
    script,       \* request_id -> the call its action makes on the wheel when
                  \* invoked; the action of an id without an entry makes none
    epicycle      \* the epicycle package's TimingWheel, driven beside this one

vars == <<time, last_id, schedule, actions, successor, predecessor, deadline,
          run, request_ids, removed, last, oracle, probe, script, epicycle>>

None == <<"none", 0>>
NoException == "NoException"
head(b) == <<"head", b>>
tail(b) == <<"tail", b>>
Cell(request_id) == <<"cell", request_id>>
value(cell) == cell[2]

\* A finite function as Python builds it: one more key, or one key less.
Put(f, k, v) == (k :> v) @@ f
Del(f, k) == [x \in DOMAIN f \ {k} |-> f[x]]

\* The wheel's fields as one record, threaded through the methods below.
\* exc is the exception the call in progress has raised, ret what it returns:
\* <<>> for None, <<v>> for the value v.  The harness's records request_ids and
\* removed ride along, for the actions that call the wheel while a tick runs.
Wheel == [time |-> time, last_id |-> last_id, schedule |-> schedule,
          actions |-> actions, successor |-> successor,
          predecessor |-> predecessor, deadline |-> deadline, run |-> run,
          probe |-> probe, exc |-> NoException, ret |-> <<>>,
          request_ids |-> request_ids, removed |-> removed]

Raise(w, exception) == [w EXCEPT !.exc = exception]

\* _Cell(value): a fresh cell, both links None.
NewCell(w, cell) ==
    [w EXCEPT !.successor = Put(@, cell, None),
              !.predecessor = Put(@, cell, None)]

\* _Cell.add(self, successor)
Cell_add(w, self, new) ==
    LET s == w.successor[self]
        pred1 == IF s # None THEN [w.predecessor EXCEPT ![s] = new]
                 ELSE w.predecessor
    IN  [w EXCEPT !.predecessor = [pred1 EXCEPT ![new] = self],
                  !.successor = [@ EXCEPT ![self] = new]]

\* _Cell.remove(self)
Cell_remove(w, self) ==
    LET p == w.predecessor[self]
        s == w.successor[self]
        succ1 == IF p # None THEN [w.successor EXCEPT ![p] = s]
                 ELSE w.successor
        pred1 == IF s # None THEN [w.predecessor EXCEPT ![s] = p]
                 ELSE w.predecessor
    IN  [w EXCEPT !.successor = [succ1 EXCEPT ![self] = None],
                  !.predecessor = [pred1 EXCEPT ![self] = None]]

\* make_list(deadline): two sentinels linked into a ring, and the deadline.
make_list(w, i) ==
    LET w1 == NewCell(NewCell(w, head(i)), tail(i))
        w2 == Cell_add(w1, head(i), tail(i))
        w3 == Cell_add(w2, tail(i), head(i))
    IN  [w3 EXCEPT !.deadline = Put(@, i, i),
                   !.schedule = Append(@, i)]

\* TimingWheel.__attrs_post_init__: deque(make_list(i) for i in range(n))
RECURSIVE post_init(_, _)
post_init(w, n) ==
    IF n = 0 THEN w ELSE make_list(post_init(w, n - 1), n - 1)

EmptyFunction == [x \in {} |-> None]

Constructed ==
    post_init([time |-> 0, last_id |-> 0, schedule |-> <<>>,
               actions |-> EmptyFunction, successor |-> EmptyFunction,
               predecessor |-> EmptyFunction, deadline |-> EmptyFunction,
               run |-> <<>>, probe |-> {}, exc |-> NoException, ret |-> <<>>],
              max_interval)

\* _List.add_to_front(self, value)
add_to_front(w, b, request_id) ==
    LET cell == Cell(request_id)
        first == w.successor[head(b)]
        w1 == NewCell(w, cell)
    IN  [w1 EXCEPT !.successor = [@ EXCEPT ![cell] = first, ![head(b)] = cell],
                   !.predecessor = [@ EXCEPT ![cell] = head(b), ![first] = cell]]

\* _List.empty(self)
empty(w, b) == w.successor[head(b)] = tail(b)

\* self._schedule[i] on the deque: negative indexes count from the right,
\* anything outside -len .. len-1 raises IndexError.
InRange(w, i) == -Len(w.schedule) <= i /\ i < Len(w.schedule)
At(w, i) == IF i >= 0 THEN w.schedule[i + 1]
            ELSE w.schedule[Len(w.schedule) + i + 1]

\* A _make_id that numbers the requests by how many are outstanding.
make_id_outstanding(w) ==
    [w EXCEPT !.last_id = Cardinality(DOMAIN w.actions) + 1,
              !.ret = <<Cardinality(DOMAIN w.actions) + 1>>]

\* TimingWheel._make_id
make_id(w) == [w EXCEPT !.last_id = @ + 1, !.ret = <<w.last_id + 1>>]

\* TimingWheel.add(interval, f): the id is made first, then the deque is indexed.
add(w, interval) ==
    LET w1 == make_id(w)
        request_id == w1.ret[1]
    IN  IF ~InRange(w1, interval) THEN [Raise(w1, "IndexError") EXCEPT !.ret = <<>>]
        ELSE LET timing_list == At(w1, interval)
                 w2 == [w1 EXCEPT !.deadline[timing_list] = w1.time + interval]
                 w3 == add_to_front(w2, timing_list, request_id)
             IN  [w3 EXCEPT !.actions = Put(@, request_id, Cell(request_id)),
                            !.ret = <<request_id>>]

\* A remove that pops the id without first testing for it.
remove_unchecked(w, request_id) ==
    IF request_id \in DOMAIN w.actions
    THEN Cell_remove([w EXCEPT !.actions = Del(@, request_id)],
                     w.actions[request_id])
    ELSE Raise(w, "KeyError")

\* A remove that forgets the id but leaves its cell linked.
remove_linked(w, request_id) ==
    IF request_id \in DOMAIN w.actions
    THEN [w EXCEPT !.actions = Del(@, request_id)]
    ELSE w

\* TimingWheel.remove(request_id)
remove(w, request_id) ==
    IF request_id \in DOMAIN w.actions
    THEN Cell_remove([w EXCEPT !.actions = Del(@, request_id)],
                     w.actions[request_id])
    ELSE w

\* The request ids of the cells linked between head(b) and tail(b), front first,
\* read through the successor links succ.
RECURSIVE Walk(_, _, _, _)
Walk(succ, cell, b, fuel) ==
    IF cell = tail(b) \/ cell = None \/ fuel = 0 THEN <<>>
    ELSE <<value(cell)>> \o Walk(succ, succ[cell], b, fuel - 1)

Contents(succ, b) == Walk(succ, succ[head(b)], b, MaxId + 1)

Lists == 0 .. max_interval - 1

\* The ids linked in some list of the wheel.
Linked(succ) ==
    UNION {{Contents(succ, b)[k] : k \in DOMAIN Contents(succ, b)} : b \in Lists}

\* What an action sees of its own request when it is invoked: whether its id
\* is a key of _actions, and whether its cell is linked in a list.
Seen(w, request_id) ==
    [id |-> request_id,
     in_map |-> request_id \in DOMAIN w.actions,
     linked |-> request_id \in Linked(w.successor)]

\* The scheduled action f(*args): appends its id to the observation log, and
\* notes what it sees of its own request.
observe(w, request_id) ==
    [w EXCEPT !.run = Append(@, request_id),
              !.probe = @ \cup {Seen(w, request_id)}]

\* The harness records the id a re-entrant add returned, with its deadline.
record_add(w, due) ==
    IF w.exc # NoException THEN w
    ELSE [w EXCEPT !.request_ids = Put(@, w.ret[1], due), !.ret = <<>>]

\* An action that calls add(interval, g) on the wheel it is scheduled on; an
\* exception of that add leaves the action and reaches tick.
reenter_add(w, interval) == record_add(add(w, interval), w.time + interval)

\* The harness counts request_id as cancelled when it was outstanding and had
\* not run.
record_remove(w, request_id) ==
    IF /\ request_id \in DOMAIN w.request_ids
       /\ \A k \in DOMAIN w.run : w.run[k] # request_id
    THEN [w EXCEPT !.removed = @ \cup {request_id},
                   !.request_ids = Del(@, request_id)]
    ELSE w

\* An action that calls remove(request_id) on the wheel it is scheduled on.
reenter_remove(w, request_id) == record_remove(remove(w, request_id), request_id)

\* The call the script of request_id gives its action, if any.
act(w, request_id) ==
    IF request_id \notin DOMAIN script THEN w
    ELSE IF script[request_id].op = "add"
         THEN reenter_add(w, script[request_id].arg)
         ELSE reenter_remove(w, script[request_id].arg)

\* f(*args, **kwargs) in tick: the action logs its id and what it sees, then
\* makes the call its script gives it.
call(w, request_id, now) == act(observe(w, request_id), request_id)

\* A loop body that runs the action and keeps its id in _actions.
fire_kept(w, request_id, now) == call(w, request_id, now)

\* del self._actions[request_id], reached when the action has returned.
del_action(w, request_id) ==
    IF w.exc # NoException THEN w
    ELSE IF request_id \in DOMAIN w.actions
         THEN [w EXCEPT !.actions = Del(@, request_id)]
         ELSE Raise(w, "KeyError")

\* The body of tick's inner for loop: run the action, then forget its id.
fire(w, request_id, now) == del_action(call(w, request_id, now), request_id)

\* A consume that yields the value of a cell it leaves linked.
unlink_skipped(w, cell) == w

\* What _List.consume does to a cell before yielding its value.
unlink(w, cell) == Cell_remove(w, cell)

\* _List.consume(self), driven by tick's inner for loop: each cell is unlinked,
\* its value handed to the loop body, and the walk goes on from the successor
\* that was read before the unlinking.
RECURSIVE consume(_, _, _, _)
consume(w, b, cell, now) ==
    IF w.exc # NoException \/ cell = tail(b) THEN w
    ELSE IF cell = None THEN Raise(w, "AttributeError")
    ELSE LET next_cell == w.successor[cell]
             w1 == unlink(w, cell)
             w2 == fire(w1, value(cell), now)
         IN  consume(w2, b, next_cell, now)

\* range(offset) in place of range(offset + 1).
last_step_short(offset) == offset - 1

\* range(offset + 1) of tick's outer loop, as its last index.
last_step(offset) == offset

\* tick's inner for loop over timing_list.consume().
drain(w, timing_list, now) ==
    consume(w, timing_list, w.successor[head(timing_list)], now)

\* The end of a turn of tick's outer loop, reached when no action raised.
requeue(w, timing_list, i) ==
    IF w.exc # NoException THEN w
    ELSE [w EXCEPT !.deadline[timing_list] = i,
                   !.schedule = Append(@, timing_list)]

\* One turn of tick's outer loop.
tick_step(w, i, now) ==
    IF w.schedule = <<>> THEN Raise(w, "IndexError")
    ELSE requeue(drain([w EXCEPT !.schedule = Tail(@)], Head(w.schedule), now),
                 Head(w.schedule), i)

RECURSIVE tick_loop(_, _, _, _)
tick_loop(w, i, n, now) ==
    IF w.exc # NoException \/ i > n THEN w
    ELSE tick_loop(tick_step(w, i, now), i + 1, n, now)

\* An assertion that forgets the lower end of the range.
in_range_upper(offset) == offset < max_interval

\* The condition tick asserts on its offset.
in_range(offset) == 0 <= offset /\ offset < max_interval

\* self._time = time, reached when the loops ended without an exception.
set_time(w, now) ==
    IF w.exc # NoException THEN w ELSE [w EXCEPT !.time = now]

\* TimingWheel.tick(time)
tick(w, now) ==
    LET offset == now - w.time
    IN  IF ~in_range(offset) THEN Raise(w, "AssertionError")
        ELSE set_time(tick_loop(w, 0, last_step(offset), now), now)

\* A scan that stops one list short.
scanned_short == 0 .. max_interval - 2

\* range(self._max_interval) of when's scan.
scanned == 0 .. max_interval - 1

Min(S) == CHOOSE x \in S : \A y \in S : x <= y

\* TimingWheel.when()
when(w) ==
    IF \E i \in scanned : ~InRange(w, i) THEN Raise(w, "IndexError")
    ELSE LET pending == {i \in scanned : ~empty(w, At(w, i))}
         IN  IF pending = {} THEN Raise(w, "Empty")
             ELSE [w EXCEPT !.ret = <<w.deadline[At(w, Min(pending))]>>]

----------------------------------------------------------------------------
\* TimerHeap, the priority-queue timer of the test module.  heap is the set of
\* <<deadline, request_id>> entries, called the ids whose action it has run.

TimerHeap == [heap |-> {}, last_id |-> 0, called |-> {},
              exc |-> NoException, ret |-> <<>>]

\* heap[0]: the entry that sorts first, by deadline and then by id.
Heap_first(h) ==
    CHOOSE e \in h.heap :
        \A d \in h.heap : e[1] < d[1] \/ (e[1] = d[1] /\ e[2] <= d[2])

\* TimerHeap.add(deadline, f)
Heap_add(h, due) ==
    [h EXCEPT !.last_id = @ + 1,
              !.heap = @ \cup {<<due, h.last_id + 1>>},
              !.exc = NoException, !.ret = <<h.last_id + 1>>]

\* TimerHeap.remove(request_id)
Heap_remove(h, request_id) ==
    [h EXCEPT !.heap = {e \in @ : e[2] # request_id},
              !.exc = NoException, !.ret = <<>>]

\* TimerHeap.tick(now): pops and runs while the first entry is due.
RECURSIVE Heap_tick(_, _)
Heap_tick(h, now) ==
    IF h.heap # {} /\ Heap_first(h)[1] <= now
    THEN Heap_tick([h EXCEPT !.heap = @ \ {Heap_first(h)},
                             !.called = @ \cup {Heap_first(h)[2]}], now)
    ELSE [h EXCEPT !.exc = NoException, !.ret = <<>>]

\* TimerHeap.when()
Heap_when(h) ==
    IF h.heap = {} THEN [h EXCEPT !.exc = "Empty", !.ret = <<>>]
    ELSE [h EXCEPT !.exc = NoException, !.ret = <<Heap_first(h)[1]>>]

----------------------------------------------------------------------------
\* The TimingWheel of the epicycle package: the lists stay in place in a Python
\* list and are indexed by time modulo max_interval.  Its cells, lists and
\* remove are the same code as above; it is one record with its own fields.

\* make_list(): two sentinels linked into a ring.
ep_make_list(w, i) ==
    LET w1 == NewCell(NewCell(w, head(i)), tail(i))
        w2 == Cell_add(w1, head(i), tail(i))
        w3 == Cell_add(w2, tail(i), head(i))
    IN  [w3 EXCEPT !.schedule = Append(@, i)]

\* TimingWheel.__attrs_post_init__: [make_list() for _ in range(n)]
RECURSIVE ep_post_init(_, _)
ep_post_init(w, n) ==
    IF n = 0 THEN w ELSE ep_make_list(ep_post_init(w, n - 1), n - 1)

Epicycle ==
    ep_post_init([time |-> 0, last_id |-> 0, schedule |-> <<>>,
                  actions |-> EmptyFunction, successor |-> EmptyFunction,
                  predecessor |-> EmptyFunction, run |-> <<>>, probe |-> {},
                  exc |-> NoException, ret |-> <<>>],
                 max_interval)

\* A call on the epicycle wheel starts with no exception and no return value.
ep_enter(w) == [w EXCEPT !.exc = NoException, !.ret = <<>>]

\* TimingWheel.add(interval, f)
ep_add(w, interval) ==
    LET w1 == make_id(w)
        request_id == w1.ret[1]
        offset == (w1.time + interval) % max_interval
        timing_list == w1.schedule[offset + 1]
        w2 == add_to_front(w1, timing_list, request_id)
    IN  [w2 EXCEPT !.actions = Put(@, request_id, Cell(request_id)),
                   !.ret = <<request_id>>]

\* The inner loop of tick over one list.
ep_drain(w, timing_list) ==
    IF w.exc # NoException THEN w
    ELSE consume(w, timing_list, w.successor[head(timing_list)], w.time)

\* TimingWheel.tick(): the list of the old time, then the list of the new one.
ep_tick(w) ==
    LET first == w.time % max_interval
        w1 == [w EXCEPT !.time = @ + 1]
        second == w1.time % max_interval
    IN  ep_drain(ep_drain(w1, w1.schedule[first + 1]), w1.schedule[second + 1])

\* TimingWheel.when()
ep_when(w) ==
    LET offset == w.time % max_interval
        pending == {i \in 0 .. max_interval - 1 :
                       ~empty(w, w.schedule[((i + offset) % max_interval) + 1])}
    IN  IF pending = {} THEN [Raise(w, "Empty") EXCEPT !.ret = <<>>]
        ELSE [w EXCEPT !.ret = <<w.time + Min(pending)>>]

----------------------------------------------------------------------------
\* The calls a client makes.  Each stores the wheel as the call left it, also
\* when the call raised, and records the call in last: op and arg, the exception
\* and return value, and ran, the length of the observation log before the call.

Store(w) ==
    /\ time' = w.time
    /\ last_id' = w.last_id
    /\ schedule' = w.schedule
    /\ actions' = w.actions
    /\ successor' = w.successor
    /\ predecessor' = w.predecessor
    /\ deadline' = w.deadline
    /\ run' = w.run
    /\ probe' = w.probe

Call(op, arg, w) == [op |-> op, arg |-> arg, exc |-> w.exc, ret |-> w.ret,
                     ran |-> Len(run)]

Init ==
    /\ time = Constructed.time
    /\ last_id = Constructed.last_id
    /\ schedule = Constructed.schedule
    /\ actions = Constructed.actions
    /\ successor = Constructed.successor
    /\ predecessor = Constructed.predecessor
    /\ deadline = Constructed.deadline
    /\ run = Constructed.run
    /\ probe = Constructed.probe
    /\ request_ids = EmptyFunction
    /\ removed = {}
    /\ last = [op |-> "init", arg |-> 0, exc |-> NoException, ret |-> <<>>,
               ran |-> 0]
    /\ oracle = TimerHeap
    /\ script = EmptyFunction
    /\ epicycle = Epicycle

\* The ids whose action has run.
Ran == {run[k] : k \in DOMAIN run}
\* The ids that were added and have neither run nor been cancelled.
Pending == DOMAIN request_ids
\* The harness forgets the ids in S.
Forget(w, S) == [r \in DOMAIN w.request_ids \ S |-> w.request_ids[r]]

\* add(interval, f) with 0 <= interval < max_interval; the harness records
\* the id with its absolute deadline (perform_add, record_action).
AddCall ==
    /\ last_id < MaxId
    /\ \E interval \in 0 .. max_interval - 1 :
         LET w == add(Wheel, interval)
         IN  /\ Store(w)
             /\ request_ids' = IF w.exc = NoException
                               THEN Put(request_ids, w.ret[1], time + interval)
                               ELSE request_ids
             /\ last' = Call("add", interval, w)
    /\ UNCHANGED removed

\* add(interval, f) with an interval outside 0 .. max_interval - 1.
AddOutOfRangeCall ==
    /\ last_id < MaxId
    /\ \E interval \in {-max_interval - 1, -max_interval, -1,
                        max_interval, max_interval + 1} :
         LET w == add(Wheel, interval)
         IN  /\ Store(w)
             /\ request_ids' = IF w.exc = NoException
                               THEN Put(request_ids, w.ret[1], time + interval)
                               ELSE request_ids
             /\ last' = Call("add", interval, w)
    /\ UNCHANGED removed

\* remove(request_id), for any id issued so far and one that never was.
RemoveCall ==
    \E request_id \in 1 .. last_id + 1 :
         LET w == remove(Wheel, request_id)
         IN  /\ Store(w)
             /\ removed' = IF request_id \in Pending
                           THEN removed \cup {request_id} ELSE removed
             /\ request_ids' = Forget(w, {request_id})
             /\ last' = Call("remove", request_id, w)

\* The wheel w as tick(now) left it; the harness forgets the ids that ran.
Ticked(w, now) ==
    /\ Store(w)
    /\ request_ids' = Forget(w, {w.run[k] : k \in DOMAIN w.run})
    /\ removed' = w.removed
    /\ last' = Call("tick", now, w)

\* tick(now) with time <= now < time + max_interval.
TickCall ==
    \E now \in time .. time + max_interval - 1 :
         /\ now <= MaxTime
         /\ Ticked(tick(Wheel, now), now)

\* tick(now) with now before the current time, or max_interval or more ahead.
TickOutOfRangeCall ==
    \E now \in {time - 1, time + max_interval} : Ticked(tick(Wheel, now), now)

\* add(interval, f) where f, when invoked, calls add(inner, g) on the wheel.
AddAdderCall ==
    /\ last_id < MaxId
    /\ Cardinality(DOMAIN script) < MaxScripted
    /\ \E interval \in 0 .. max_interval - 1 :
       \E inner \in 0 .. max_interval - 1 :
         LET w == add(Wheel, interval)
         IN  /\ Store(w)
             /\ request_ids' = Put(request_ids, w.ret[1], time + interval)
             /\ script' = Put(script, w.ret[1], [op |-> "add", arg |-> inner])
             /\ last' = Call("add", interval, w)
    /\ UNCHANGED removed

\* add(interval, f) where f, when invoked, calls remove(target) on the wheel:
\* target is an id issued before, or the id this add returns.
AddRemoverCall ==
    /\ last_id < MaxId
    /\ Cardinality(DOMAIN script) < MaxScripted
    /\ \E interval \in 0 .. max_interval - 1 :
       \E target \in 1 .. last_id + 1 :
         LET w == add(Wheel, interval)
         IN  /\ Store(w)
             /\ request_ids' = Put(request_ids, w.ret[1], time + interval)
             /\ script' = Put(script, w.ret[1], [op |-> "remove", arg |-> target])
             /\ last' = Call("add", interval, w)
    /\ UNCHANGED removed

\* tick(time + 1): the clock advances by one unit.
TickOneCall ==
    /\ time + 1 <= MaxTime
    /\ Ticked(tick(Wheel, time + 1), time + 1)

\* when()
WhenCall ==
    LET w == when(Wheel)
    IN  /\ Store(w)
        /\ last' = Call("when", 0, w)
        /\ UNCHANGED <<request_ids, removed>>

\* The wheel is driven alone: nothing beside it moves.
Alone == UNCHANGED <<oracle, script, epicycle>>

Add == AddCall /\ Alone
AddOutOfRange == AddOutOfRangeCall /\ Alone
Remove == RemoveCall /\ Alone
Tick == TickCall /\ Alone
TickOutOfRange == TickOutOfRangeCall /\ Alone
When == WhenCall /\ Alone

\* Clients that respect the documented ranges.
Next == Add \/ Remove \/ Tick \/ When
Spec == Init /\ [][Next]_vars

\* Clients that may also pass out-of-range arguments.
NextAny == Add \/ Remove \/ Tick \/ When \/ AddOutOfRange \/ TickOutOfRange
SpecAny == Init /\ [][NextAny]_vars

\* Clients that may also call tick with a time out of range.
NextTick == Add \/ Remove \/ Tick \/ When \/ TickOutOfRange
SpecTick == Init /\ [][NextTick]_vars

\* Clients that may also schedule an action that adds to the wheel.
AddAdder == AddAdderCall /\ UNCHANGED <<oracle, epicycle>>
NextAdder == Add \/ Remove \/ Tick \/ When \/ AddAdder
SpecAdder == Init /\ [][NextAdder]_vars

\* Clients that may also schedule an action that removes from the wheel.
AddRemover == AddRemoverCall /\ UNCHANGED <<oracle, epicycle>>
NextRemover == Add \/ Remove \/ Tick \/ When \/ AddRemover
SpecRemover == Init /\ [][NextRemover]_vars

\* Both packages' wheels, constructed with the same max_interval, given the same
\* calls: add, remove, when, and the clock advanced one unit at a time
\* (tick(time + 1) here, tick() there).
Beside == UNCHANGED <<oracle, script>>
TwinAdd == AddCall /\ epicycle' = ep_add(ep_enter(epicycle), last'.arg) /\ Beside
TwinRemove == RemoveCall /\ epicycle' = remove(ep_enter(epicycle), last'.arg) /\ Beside
TwinTick == TickOneCall /\ epicycle' = ep_tick(ep_enter(epicycle)) /\ Beside
TwinWhen == WhenCall /\ epicycle' = ep_when(ep_enter(epicycle)) /\ Beside
NextTwin == TwinAdd \/ TwinRemove \/ TwinTick \/ TwinWhen
SpecTwin == Init /\ [][NextTwin]_vars

\* The harness of the test module: every call goes to the wheel and to the
\* TimerHeap, the wheel given the interval, the heap the absolute deadline
\* (the time of the call + the interval).
BothAdd == AddCall /\ oracle' = Heap_add(oracle, time + last'.arg) /\ UNCHANGED <<script, epicycle>>
BothRemove == RemoveCall /\ oracle' = Heap_remove(oracle, last'.arg) /\ UNCHANGED <<script, epicycle>>
BothTick == TickCall /\ oracle' = Heap_tick(oracle, last'.arg) /\ UNCHANGED <<script, epicycle>>
BothWhen == WhenCall /\ oracle' = Heap_when(oracle) /\ UNCHANGED <<script, epicycle>>
NextBoth == BothAdd \/ BothRemove \/ BothTick \/ BothWhen
SpecBoth == Init /\ [][NextBoth]_vars

----------------------------------------------------------------------------
\* What the claims are stated over.

\* Every id add has returned so far.
Returned == Pending \cup Ran \cup removed

\* The ids run by the last call.
RanByLast == {run[k] : k \in last.ran + 1 .. Len(run)}

Without(seq, x) == SelectSeq(seq, LAMBDA y : y # x)

WheelUnchanged ==
    UNCHANGED <<time, last_id, schedule, actions, successor, predecessor,
                deadline, run>>

Returns(op) == last.op = op /\ last.exc = NoException

\* The outcome of a call: its exception and its return value.
Outcome(w) == <<w.exc, w.ret>>

----------------------------------------------------------------------------
\* C1, the clause "no action fires during an advance whose target is smaller
\* than its deadline": whenever a tick(now) runs an action, that action was
\* outstanding and its absolute deadline (time of its add + interval) is at
\* most now.
C1_NoActionFiresBeforeItsDeadline ==
    [][(last'.op = "tick" /\ last'.exc = NoException)
         => \A r \in Ran' \ Ran :
                r \in Pending /\ request_ids[r] <= last'.arg]_vars

\* C2: when a tick returns, no outstanding action has a deadline at or before
\* the wheel's time.
C2_NothingDueIsLeftPending ==
    Returns("tick") => \A r \in Pending : request_ids[r] > time

\* A tick that moved the clock has run an action and left another pending.
C2_Witness ==
    /\ Returns("tick")
    /\ RanByLast # {}
    /\ Pending # {}
    /\ time > 0

\* C3: no request id occurs twice in the observation log.
C3_EachActionRunsAtMostOnce ==
    \A i, j \in DOMAIN run : i # j => run[i] # run[j]

\* After an earlier call ran an action, the last tick has run another one,
\* whose id is larger than every id run before.
C3_Witness ==
    /\ Returns("tick")
    /\ Len(run) >= 2
    /\ last.ran >= 1
    /\ RanByLast # {}
    /\ \E r \in RanByLast : \A q \in Ran \ RanByLast : q < r

\* C4: an id removed while it was outstanding never runs, and the remove that
\* cancels it takes its cell out of its list and its id out of the id map and
\* changes nothing else: every list keeps its other cells in their order, the
\* deque, the deadlines, the time and the log stay as they were.
C4_CancelledNeverRuns ==
    /\ [](removed \cap Ran = {})
    /\ [][(last'.op = "remove" /\ last'.arg \in Pending)
            => /\ last'.exc = NoException
               /\ \A b \in Lists : Contents(successor', b)
                                     = Without(Contents(successor, b), last'.arg)
               /\ DOMAIN actions' = DOMAIN actions \ {last'.arg}
               /\ UNCHANGED <<time, last_id, schedule, deadline, run>>]_vars

\* After a remove of a pending id, a tick has run an action that was added
\* before the cancelled one.
C4_Witness ==
    /\ Returns("tick")
    /\ \E r \in removed : \E q \in RanByLast : q < r

\* C5: whenever an action is outstanding, when() returns the least absolute
\* deadline of the outstanding actions.
C5_WhenIsTheSoonestDeadline ==
    Pending # {} =>
        /\ when(Wheel).exc = NoException
        /\ when(Wheel).ret = <<Min({request_ids[r] : r \in Pending})>>

\* C6: when() raises Empty exactly when no action is outstanding, and returns
\* without raising otherwise.
C6_EmptyIffNothingPending ==
    /\ (when(Wheel).exc = "Empty") <=> (Pending = {})
    /\ Pending # {} => when(Wheel).exc = NoException

\* when() has raised Empty on a wheel whose actions have all run or been
\* cancelled.
C6_Witness ==
    /\ last.op = "when"
    /\ last.exc = "Empty"
    /\ Ran # {}
    /\ removed # {}

\* C7: the id an add returns is greater than every id returned before it.
C7_IdsStrictlyIncrease ==
    [][(last'.op = "add" /\ last'.exc = NoException)
         => \A r \in Returned : last'.ret[1] > r]_vars

\* An add has returned its id on a wheel none of whose earlier actions is
\* outstanding any more: they have run or been cancelled.
C7_Witness ==
    /\ Returns("add")
    /\ last.ret # <<1>>
    /\ Ran \cup removed # {}
    /\ Pending = {last.ret[1]}

\* C8, whatever the failure is called: an add with an interval below 0 or at
\* least max_interval raises, returns no id and links no cell.
C8_OutOfRangeAddIsRejected ==
    [][(last'.op = "add" /\ last'.arg \notin 0 .. max_interval - 1)
         => /\ last'.exc # NoException
            /\ last'.ret = <<>>
            /\ Linked(successor') = Linked(successor)]_vars

\* C9 as stated: a tick whose time is before the wheel's, or max_interval or
\* more ahead of it, fails with TimeOutOfRange.
C9_FailsWithTimeOutOfRange ==
    [][(last'.op = "tick" /\ ~(time <= last'.arg /\ last'.arg < time + max_interval))
         => last'.exc = "TimeOutOfRange"]_vars

\* C9 amended: such a tick fails with AssertionError, runs no action and
\* leaves the time, the deque, every list and the id map as they were.
C9_FailsWithAssertionError ==
    [][(last'.op = "tick" /\ ~(time <= last'.arg /\ last'.arg < time + max_interval))
         => /\ last'.exc = "AssertionError"
            /\ WheelUnchanged]_vars

\* A tick has failed on a wheel with an action outstanding.
C9_Witness ==
    /\ last.op = "tick"
    /\ last.exc = "AssertionError"
    /\ Pending # {}

\* C10: a remove of an id that is not outstanding (never issued, already run,
\* already cancelled) does not raise and leaves the whole wheel as it was.
C10_RemoveOfUnknownIdIsANoOp ==
    [][(last'.op = "remove" /\ last'.arg \notin Pending)
         => /\ last'.exc = NoException
            /\ WheelUnchanged]_vars

\* An id that has already run has been removed while another action is
\* outstanding.
C10_Witness ==
    /\ Returns("remove")
    /\ last.arg \in Ran
    /\ Pending # {}

\* C11: driven side by side, the wheel and the TimerHeap have returned the same
\* ids, when() ends the same way on both (the same time, or Empty on both), and
\* the actions the wheel has run are the actions the heap has run.
C11_WheelAgreesWithTimerHeap ==
    /\ oracle.last_id = last_id
    /\ Outcome(when(Wheel)) = Outcome(Heap_when(oracle))
    /\ Ran = oracle.called

\* C12: every action, when it was invoked, found its cell unlinked from every
\* list and its id gone from the id map.
C12_FiredRequestIsNotOutstanding ==
    \A seen \in probe : ~seen.linked /\ ~seen.in_map

\* C13: between operations every non-empty list holds only requests that
\* share one absolute deadline (time of the add + interval), and the list's
\* deadline field is that deadline.
C13_ListHoldsOneDeadline ==
    \A b \in Lists :
        \A k \in DOMAIN Contents(successor, b) :
            request_ids[Contents(successor, b)[k]] = deadline[b]

\* Where request_id is linked: the <<list, position>> pairs that hold it.
Places(request_id) ==
    {<<b, k>> \in Lists \X (1 .. MaxId + 1) :
        /\ k \in DOMAIN Contents(successor, b)
        /\ Contents(successor, b)[k] = request_id}

\* C14: between operations the id map and the lists agree: the keys of _actions
\* are exactly the ids of the linked cells, each id is on exactly one cell of
\* exactly one list, and the cell _actions records for an id is the linked cell
\* that carries it.
C14_IdMapAgreesWithLists ==
    /\ DOMAIN actions = Linked(successor)
    /\ \A request_id \in DOMAIN actions :
          /\ Cardinality(Places(request_id)) = 1
          /\ value(actions[request_id]) = request_id
          /\ successor[predecessor[actions[request_id]]] = actions[request_id]
          /\ predecessor[successor[actions[request_id]]] = actions[request_id]

\* A tick has fired one request and another is still linked and mapped.
C14_Witness ==
    /\ Returns("tick")
    /\ last.ran > 0
    /\ DOMAIN actions # {}
    /\ DOMAIN actions = Linked(successor)

\* The deque after n lists went from its left end to its right end.
Rotate(seq, n) ==
    [k \in 1 .. Len(seq) |-> seq[((k - 1 + n) % Len(seq)) + 1]]

\* C15: a successful tick from time c to time t drains and rotates exactly
\* t - c lists; tick(c) itself visits none: it runs no action and leaves the
\* order of the lists, their contents, the id map and the time as they were.
C15_TickRotatesOneListPerTimeStep ==
    [][(last'.op = "tick" /\ last'.exc = NoException) =>
         /\ schedule' = Rotate(schedule, last'.arg - time)
         /\ last'.arg = time =>
               /\ run' = run
               /\ UNCHANGED <<schedule, successor, actions, time>>]_vars

\* C16: within one tick the actions are invoked in non-decreasing order of
\* absolute deadline, and among actions with the same deadline the one added
\* most recently (the larger id) is invoked first.
C16_FiresByDeadlineThenNewestFirst ==
    [][(last'.op = "tick" /\ last'.exc = NoException) =>
         \A j, k \in Len(run) + 1 .. Len(run') :
             j < k =>
                 \/ request_ids[run'[j]] < request_ids[run'[k]]
                 \/ /\ request_ids[run'[j]] = request_ids[run'[k]]
                    /\ run'[j] > run'[k]]_vars

\* The last call was a tick that invoked an action with a script.
TickRanScripted ==
    /\ last.op = "tick"
    /\ \E request_id \in RanByLast : request_id \in DOMAIN script

\* C17: an action invoked by a tick may call add with any interval in
\* 0 .. max_interval - 1: the add succeeds, the tick completes without error,
\* and when it returns the wheel has max_interval lists and every outstanding
\* request, the new one included, is in the id map and linked in exactly one
\* list.
C17_ReentrantAddSucceeds ==
    TickRanScripted =>
        /\ last.exc = NoException
        /\ Len(schedule) = max_interval
        /\ \A request_id \in Pending :
              /\ request_id \in DOMAIN actions
              /\ Cardinality(Places(request_id)) = 1

\* C18: an action invoked by a tick may call remove for any id: the tick
\* completes without error, no cancelled action is invoked, no action is
\* invoked twice, and nothing due is left outstanding.
C18_ReentrantRemoveSucceeds ==
    TickRanScripted =>
        /\ last.exc = NoException
        /\ removed \cap Ran = {}
        /\ \A j, k \in DOMAIN run : j # k => run[j] # run[k]
        /\ \A request_id \in Pending : request_ids[request_id] > time

\* C19: an add that is rejected leaves the wheel as it was: the lists, their
\* deadlines, the id map and the time are unchanged and no id is consumed.
C19_RejectedAddChangesNothing ==
    [][(last'.op = "add" /\ last'.exc # NoException) => WheelUnchanged]_vars

\* C20: given the same adds, removes and one-unit advances from time 0, the
\* deque wheel and the epicycle wheel have returned the same ids, have run the
\* same actions, and when() gives the same result on both (the same time, or
\* Empty on both) after every call.
C20_DequeWheelAgreesWithEpicycle ==
    /\ epicycle.last_id = last_id
    /\ {epicycle.run[k] : k \in DOMAIN epicycle.run} = Ran
    /\ Outcome(ep_when(ep_enter(epicycle))) = Outcome(when(Wheel))

====
